---- MODULE Spec2Model ----
(***************************************************************************)
(* Task dashboard front-end: the Home page, the Task Details panel          *)
(* (CommandDetails), the usePolling hook and the ApiClient calls the panel  *)
(* makes, with the backend as the environment that answers the requests.    *)
(*                                                                          *)
(* One action is one run of a handler between two awaits: React batches     *)
(* the state setters of such a run and commits them together, and the       *)
(* effects of the commit (usePolling's timer effect, the unmount of the     *)
(* panel when Home stops rendering it) are part of the same action.         *)
(* A request in flight carries what the closure that issued it captured:    *)
(* the render's currentTask, task prop and isMounted.                       *)
(***************************************************************************)
EXTENDS Integers, Sequences, FiniteSets, Bags, TLC

\* ------------------------------------------------------------- bounds
MaxFeedback == 1     \* tasks the backend creates after the first (feedback rounds, submissions)
MaxPolls    == 2     \* silentRefreshTask invocations of one panel in flight at once
MaxFetches  == 2     \* fetchTasks invocations of the list in flight at once
MaxSubmits  == 1     \* tasks submitted through the form
MaxTimers   == 4     \* interval timers one usePolling instance creates
MaxAuthRequests == 4 \* GitHub requests the Auth Context has in flight

TaskIds == 1..(1 + MaxFeedback)

VARIABLES
  \* Home (page)
  selectedTask, refreshTrigger,
  \* next-auth session
  accessToken,
  \* TaskDetails state
  currentTask, taskContent, loading, filesLoading, error, isMounted,
  deleting, showDeleteConfirm, showPRModal, creatingPR,
  showFeedbackModal, feedback, sendingFeedback, showFeedbackSuccess,
  feedbackTaskId,
  \* usePolling: the interval timer of the panel
  timerActive,
  \* runtime: the requests in flight
  inflight,
  \* backend (environment)
  bstatus, sessionId, isGitRepo, contentType, feedbackHistory,
  \* the handler run that happened last, with the Task a silent status
  \* response carried and the callback a timer invoked
  lastOp,
  \* a usePolling instance: its savedCallback ref, the interval timers that
  \* exist, the timer its current timer effect created, the arguments of its
  \* last render, whether its owner is mounted, the ids setInterval has
  \* handed out
  savedCallback, timers, effectTimer, pollArgs, ownerMounted, nextTimer,
  \* TasksList state and its list requests in flight
  tasks, listLoading, listError, filter, listInflight,
  \* TaskForm state and its execute requests in flight
  task, selectedRepo, isSubmitting, formError, success, executeInflight,
  \* ApiClient: the operation called last with the response it got, and what
  \* it returned or threw
  apiCall, apiResult,
  \* next-auth's useSession and the GitHubAuthProvider's state, with the
  \* GitHub requests it has in flight
  authStatus, session, user, repos, isLoading, authError, authInflight,
  \* a file of the parsed diff and the type the diff view gives it
  oldPath, newPath, actualFileType,
  \* the launch script: the directories it finds, its position, its
  \* variables, the signal it has not handled yet, its exit status and the
  \* two service processes
  backendDir, frontendDir, pc, BACKEND_PID, FRONTEND_PID, pending, exitStatus,
  backend, frontend

homeVars    == <<selectedTask, refreshTrigger>>
dataVars    == <<currentTask, taskContent, loading, filesLoading, error>>
deleteVars  == <<deleting, showDeleteConfirm>>
prVars      == <<showPRModal, creatingPR>>
fbVars      == <<showFeedbackModal, feedback, sendingFeedback, showFeedbackSuccess,
                 feedbackTaskId>>
panelVars   == <<dataVars, isMounted, deleteVars, prVars, fbVars, timerActive>>
servedVars  == <<sessionId, isGitRepo, contentType, feedbackHistory>>
backendVars == <<bstatus, servedVars>>
hookVars    == <<savedCallback, timers, effectTimer, pollArgs, ownerMounted, nextTimer>>
listVars    == <<tasks, listLoading, listError, filter, listInflight>>
formVars    == <<task, selectedRepo, isSubmitting, formError, success, executeInflight>>
apiVars     == <<apiCall, apiResult>>
authVars    == <<authStatus, session, user, repos, isLoading, authError, authInflight>>
fileVars    == <<oldPath, newPath, actualFileType>>
launchVars  == <<backendDir, frontendDir, pc, BACKEND_PID, FRONTEND_PID, pending,
                 exitStatus, backend, frontend>>
siteVars    == <<authVars, fileVars, launchVars>>
pageVars    == <<hookVars, listVars, formVars, apiVars, siteVars>>
vars == <<homeVars, accessToken, panelVars, inflight, backendVars, lastOp, pageVars>>

\* ------------------------------------------------------------- data
Terminal(st) == st = "completed" \/ st = "failed"

\* Task | null; the optional fields hold "undefined" when absent
NullTask == [id |-> 0, status |-> "none", end_time |-> "null", output |-> "undefined",
             error |-> "undefined", feedback_history |-> {}, session_id |-> "undefined"]

\* the Task record the backend serves for task id in status st: a feedback
\* task (id > 1) carries the feedback_history the backend keeps for it
BackendTask(id, st) ==
  [id |-> id, status |-> st,
   end_time |-> IF st = "running" THEN "null" ELSE "t1",
   output |-> IF st = "running" THEN "undefined" ELSE "out",
   error |-> IF st = "failed" THEN "err" ELSE "undefined",
   feedback_history |-> IF id > 1 THEN feedbackHistory ELSE {},
   session_id |-> sessionId]

NullContent == [task_id |-> 0, is_git_repo |-> FALSE, content_type |-> "none"]

\* TaskContentResponse of GET /content/{id}
Content(id) == [task_id |-> id, is_git_repo |-> isGitRepo, content_type |-> contentType]

\* JSON.stringify of an optional array: undefined stays undefined
JsonStringify(h) == IF h = {} THEN "undefined" ELSE ToString(CHOOSE s \in h : TRUE)

\* String.prototype.trim on the texts the feedback box and the task
\* description hold
Trim(s) ==
  CASE s = " " -> ""
    [] s = " add README " -> "add README"
    [] OTHER -> s

\* silentRefreshTask's change detection over the five tracked fields
HasChanges(updatedTask, cur) ==
  \/ updatedTask.status # cur.status
  \/ updatedTask.end_time # cur.end_time
  \/ updatedTask.output # cur.output
  \/ updatedTask.error # cur.error
  \/ JsonStringify(updatedTask.feedback_history) # JsonStringify(cur.feedback_history)

\* silentRefreshTask's test for re-fetching the content
ContentRefetchNeeded(updatedTask, cur) ==
  /\ updatedTask.status # cur.status
  /\ Terminal(updatedTask.status)

\* sendFeedback as it would be if it kept showing the task the feedback was
\* given on
FeedbackTaskKeepsId(fid, cur) ==
  [id |-> cur.id, status |-> "running", end_time |-> "null", output |-> "undefined",
   error |-> "undefined", feedback_history |-> {}, session_id |-> cur.session_id]

\* the feedback task sendFeedback synthesizes
FeedbackTask(fid, cur) ==
  [id |-> fid, status |-> "running", end_time |-> "null", output |-> "undefined",
   error |-> "undefined", feedback_history |-> {}, session_id |-> cur.session_id]

\* the enabled option as it would be if it held for every displayed task
PollEnabledWhileShown(cur) == cur.id # 0

\* usePolling's enabled option as TaskDetails passes it
PollEnabled(cur) == cur.status = "running"

\* usePolling's timer effect: a timer exists exactly while enabled
UsePolling(enabled) == enabled

\* the record of a handler run
Op(name) == [op |-> name, updatedTask |-> NullTask, callback |-> "none"]

\* ------------------------------------------------------------- requests
\* a request in flight: the handler that awaits it (kind), whether the panel
\* that issued it is still the mounted one (live), what the issuing closure
\* captured (its task prop id, its currentTask where the handler reads it
\* after the await, its isMounted), the requested id, the backend's status of
\* that id when the request was issued, and the message a catch block of the
\* awaiting handler chain has already set (caught)
StatusOf(id) == IF id \in TaskIds THEN bstatus[id] ELSE "absent"

Request(kind, id, cur) ==
  [kind |-> kind, live |-> TRUE, prop |-> selectedTask.id, id |-> id, cap |-> cur,
   isMounted |-> isMounted, snap |-> StatusOf(id), caught |-> "null"]

\* fetchTaskData's request, issued by the closure that awaited m
FollowUp(m, kind) ==
  [m EXCEPT !.kind = kind, !.id = m.prop, !.cap = NullTask, !.snap = StatusOf(m.prop)]

Send(m) == inflight (+) SetToBag({m})
Recv(m) == inflight (-) SetToBag({m})

PanelOpen == selectedTask # NullTask
Live(m) == m.live

\* the statuses GET /status/{id} can answer a request with: the backend's
\* status at some moment between the request and its response
Answers(m) == {m.snap, StatusOf(m.id)} \cap {"running", "completed", "failed"}

\* the requests of the given kinds in a bag of requests
CopiesOf(bag, kinds) ==
  BagCardinality([m \in {x \in BagToSet(bag) : x.kind \in kinds} |-> CopiesIn(m, bag)])

Copies(kinds) == CopiesOf(inflight, kinds)

PollsInFlight == Copies({"silent_status", "silent_content"})

\* requests whose handlers only read and set panel state
DataKinds == {"init_status", "init_content", "refresh_status", "refresh_content",
              "silent_status", "silent_content", "create_pr", "orphan"}

\* what a request in flight becomes when its panel is unmounted: nothing a
\* data request brings back can reach any state any more, so those are kept
\* as one orphan; a delete or feedback request keeps what its handler passes
\* to Home and what the backend does with it (a second copy of the same
\* request could only be refused by the backend, so one copy is kept)
Orphan(m) ==
  IF m.kind \in DataKinds
    THEN [kind |-> "orphan", live |-> FALSE, prop |-> 0, id |-> 0, cap |-> NullTask,
          isMounted |-> m.isMounted, snap |-> "absent", caught |-> "null"]
    ELSE [m EXCEPT !.live = FALSE, !.cap = NullTask]

Orphaned(bag) == SetToBag({Orphan(m) : m \in BagToSet(bag)})

\* ------------------------------------------------------------- modals
\* the modals are full-screen overlays; the one rendered last is on top
TopModal ==
  IF showFeedbackSuccess THEN "success"
  ELSE IF showFeedbackModal THEN "feedback"
  ELSE IF showPRModal THEN "pr"
  ELSE IF showDeleteConfirm THEN "delete"
  ELSE "none"

PanelButtons == PanelOpen /\ currentTask # NullTask /\ TopModal = "none"

\* ------------------------------------------------------------- init
\* usePolling before its first render
NoArgs == [callback |-> "noop", interval |-> 0, enabled |-> FALSE]

\* ApiClient before any call
NoCall == [op |-> "none", status |-> "none", json |-> FALSE, error |-> ""]
NoResult == [kind |-> "none", message |-> "", tasks |-> {}, total |-> 0]

\* the state of TasksList, TaskForm and the polling hook as constructed
PageInit ==
  /\ savedCallback = "noop"
  /\ timers = {}
  /\ effectTimer = 0
  /\ pollArgs = NoArgs
  /\ ownerMounted = FALSE
  /\ nextTimer = 1
  /\ tasks = {}
  /\ listLoading = TRUE
  /\ listError = "null"
  /\ filter = "all"
  /\ listInflight = EmptyBag
  /\ task = ""
  /\ selectedRepo = ""
  /\ isSubmitting = FALSE
  /\ formError = "null"
  /\ success = "null"
  /\ executeInflight = EmptyBag
  /\ apiCall = NoCall
  /\ apiResult = NoResult
  /\ authStatus = "loading"
  /\ session = "null"
  /\ user = "null"
  /\ repos = {}
  /\ isLoading = FALSE
  /\ authError = "null"
  /\ authInflight = EmptyBag
  /\ actualFileType = "undefined"
  /\ pc = 0
  /\ BACKEND_PID = "unset"
  /\ FRONTEND_PID = "unset"
  /\ pending = "none"
  /\ exitStatus = "none"
  /\ backend = "not started"
  /\ frontend = "not started"

PanelInit ==
  /\ currentTask = NullTask
  /\ taskContent = NullContent
  /\ loading = FALSE
  /\ filesLoading = FALSE
  /\ error = "null"
  /\ isMounted = TRUE
  /\ deleting = FALSE
  /\ showDeleteConfirm = FALSE
  /\ showPRModal = FALSE
  /\ creatingPR = FALSE
  /\ showFeedbackModal = FALSE
  /\ feedback = ""
  /\ sendingFeedback = FALSE
  /\ showFeedbackSuccess = FALSE
  /\ feedbackTaskId = 0
  /\ timerActive = FALSE

InitApp ==
  /\ selectedTask = NullTask
  /\ refreshTrigger = 0
  /\ accessToken = FALSE
  /\ PanelInit
  /\ inflight = EmptyBag
  /\ bstatus = [i \in TaskIds |-> IF i = 1 THEN "running" ELSE "absent"]
  /\ sessionId \in {"undefined", "sess-1"}
  /\ feedbackHistory \in {{}, {<<"fix">>}}
  /\ isGitRepo \in BOOLEAN
  /\ contentType \in {"diff", "files"}
  /\ lastOp = Op("init")
  /\ PageInit

\* the application, with no diff on the screen and the launch script's
\* directories in place
Init ==
  /\ InitApp
  /\ oldPath = "undefined"
  /\ newPath = "undefined"
  /\ backendDir = TRUE
  /\ frontendDir = TRUE

\* the panel's state is dropped when Home stops rendering it
Unmount ==
  /\ currentTask' = NullTask
  /\ taskContent' = NullContent
  /\ loading' = FALSE
  /\ filesLoading' = FALSE
  /\ error' = "null"
  /\ isMounted' = TRUE
  /\ deleting' = FALSE
  /\ showDeleteConfirm' = FALSE
  /\ showPRModal' = FALSE
  /\ creatingPR' = FALSE
  /\ showFeedbackModal' = FALSE
  /\ feedback' = ""
  /\ sendingFeedback' = FALSE
  /\ showFeedbackSuccess' = FALSE
  /\ feedbackTaskId' = 0
  /\ timerActive' = FALSE

\* ------------------------------------------------------------- backend
BackendFinish ==
  \E i \in TaskIds, st \in {"completed", "failed"} :
    /\ bstatus[i] = "running"
    /\ bstatus' = [bstatus EXCEPT ![i] = st]
    /\ lastOp' = Op("backendFinish")
    /\ UNCHANGED <<homeVars, accessToken, panelVars, inflight, servedVars, pageVars>>

\* ------------------------------------------------------------- Home
\* a row of the task list is clicked: Home renders TaskDetails with the row's
\* task, and the panel's selection effect starts initializeTaskData
HandleTaskClick ==
  \E i \in TaskIds, st \in {"running", "completed", "failed"} :
    /\ ~PanelOpen
    /\ bstatus[i] \in {"running", "completed", "failed"}
    /\ st \in {"running", bstatus[i]}
    /\ selectedTask' = BackendTask(i, st)
    /\ currentTask' = BackendTask(i, st)
    /\ taskContent' = NullContent
    /\ error' = "null"
    /\ loading' = TRUE
    /\ timerActive' = UsePolling(PollEnabled(BackendTask(i, st)))
    /\ inflight' = Send([kind |-> "init_status", live |-> TRUE, prop |-> i, id |-> i,
                          cap |-> NullTask, isMounted |-> isMounted, snap |-> bstatus[i],
                          caught |-> "null"])
    /\ lastOp' = Op("handleTaskClick")
    /\ UNCHANGED <<refreshTrigger, accessToken, filesLoading, isMounted, deleteVars,
                   prVars, fbVars, backendVars, pageVars>>

HandleCloseDetails ==
  /\ PanelButtons
  /\ selectedTask' = NullTask
  /\ Unmount
  /\ lastOp' = Op("handleCloseDetails")
  /\ inflight' = Orphaned(inflight)
  /\ UNCHANGED <<refreshTrigger, accessToken, backendVars, pageVars>>

\* ------------------------------------------------------------- polling
\* the interval timer fires and calls the latest silentRefreshTask
Tick ==
  /\ PanelOpen
  /\ timerActive
  /\ PollsInFlight < MaxPolls
  /\ currentTask.id # 0 /\ isMounted
  /\ inflight' = Send(Request("silent_status", currentTask.id, currentTask))
  /\ lastOp' = Op("tick")
  /\ UNCHANGED <<homeVars, accessToken, panelVars, backendVars, pageVars>>

\* ------------------------------------------------------------- ApiClient
\* the HTTP statuses a failing response carries
FailCodes == {"500"}

\* the message of the Error the ApiClient throws on a non-2xx response
HttpError(code) == "HTTP error! status: " \o code

\* createPullRequest / sendFeedback prefer the body's error text
BodyOrHttpError(bodyError, code) == IF bodyError # "" THEN bodyError ELSE HttpError(code)

\* ------------------------------------------------------------- fetchTaskData
\* fetchTaskData's entry test, as the closure that calls it evaluates it
FetchTaskDataRuns(m) == m.prop # 0 /\ m.isMounted

\* the mounted-flag test of a handler that resumes after its await
MountedCheck(m) == m.isMounted

\* a response reaches a handler of a panel that is no longer mounted: the
\* closure's isMounted is the value of the render that issued the request, so
\* the handler's mounted test decides whether it calls its setters on the
\* unmounted component (React drops such calls)
ResumeUnmounted ==
  \E m \in BagToSet(inflight) :
    /\ m.kind = "orphan"
    /\ inflight' = Recv(m)
    /\ lastOp' = IF m.isMounted THEN Op("setStateAfterUnmount") ELSE Op("droppedAfterUnmount")
    /\ UNCHANGED <<homeVars, accessToken, panelVars, backendVars, pageVars>>

\* the response of apiClient.getTaskContent(task.id) inside fetchTaskData
RecvContent ==
  \E m \in BagToSet(inflight) :
    /\ m.kind \in {"init_content", "refresh_content", "silent_content"}
    /\ \/ /\ Live(m)
          /\ inflight' = Recv(m)
          /\ \/ /\ Answers(m) # {}
                /\ taskContent' = IF MountedCheck(m) THEN Content(m.id) ELSE taskContent
                /\ error' = error
                /\ lastOp' = Op("contentOk")
             \/ \E c \in FailCodes :
                /\ error' = IF MountedCheck(m) THEN HttpError(c) ELSE error
                /\ taskContent' = taskContent
                /\ lastOp' = Op("contentFailed")
          /\ filesLoading' = IF MountedCheck(m) THEN FALSE ELSE filesLoading
          \* refreshTask's finally runs once its fetchTaskData has returned
          /\ loading' = IF m.kind = "refresh_content" /\ MountedCheck(m) THEN FALSE ELSE loading
          /\ UNCHANGED <<homeVars, accessToken, currentTask, isMounted, deleteVars,
                         prVars, fbVars, timerActive, backendVars, pageVars>>

\* ------------------------------------------------------------- selection
\* refreshTaskData resumes with the status response, and initializeTaskData
\* goes on to fetchTaskData whatever the outcome
RecvInitStatus ==
  \E m \in BagToSet(inflight) :
    /\ m.kind = "init_status"
    /\ Live(m)
    /\ \E r \in Answers(m) \cup FailCodes :
         LET ok == r \in Answers(m)
             \* refreshTaskData's catch
             caught == IF ~ok /\ MountedCheck(m) THEN HttpError(r) ELSE "null"
             reported == IF caught # "null" THEN caught ELSE error
         IN
         /\ currentTask' = IF ok /\ MountedCheck(m) THEN BackendTask(m.id, r) ELSE currentTask
         /\ loading' = IF MountedCheck(m) THEN FALSE ELSE loading
         \* fetchTaskData: setFilesLoading(true); setError(null)
         /\ IF FetchTaskDataRuns(m)
              THEN /\ filesLoading' = TRUE
                   /\ error' = "null"
                   /\ inflight' = Recv(m) (+)
                        SetToBag({[FollowUp(m, "init_content") EXCEPT !.caught = caught]})
              ELSE /\ filesLoading' = filesLoading
                   /\ error' = reported
                   /\ inflight' = Recv(m)
         /\ lastOp' = IF ok THEN Op("initStatusOk") ELSE Op("initStatusFailed")
    /\ timerActive' = UsePolling(PollEnabled(currentTask'))
    /\ UNCHANGED <<homeVars, accessToken, taskContent, isMounted, deleteVars,
                   prVars, fbVars, backendVars, pageVars>>

\* ------------------------------------------------------------- refresh
\* the Refresh button
RefreshTask ==
  /\ PanelButtons
  /\ ~loading
  /\ currentTask.id # 0 /\ isMounted
  /\ loading' = TRUE
  /\ error' = "null"
  /\ inflight' = Send(Request("refresh_status", currentTask.id, NullTask))
  /\ lastOp' = Op("refreshTask")
  /\ UNCHANGED <<homeVars, accessToken, currentTask, taskContent, filesLoading,
                 isMounted, deleteVars, prVars, fbVars, timerActive, backendVars, pageVars>>

RecvRefreshStatus ==
  \E m \in BagToSet(inflight) :
    /\ m.kind = "refresh_status"
    /\ \/ /\ Live(m)
          /\ \/ \E st \in Answers(m) :
                /\ currentTask' = IF MountedCheck(m) THEN BackendTask(m.id, st) ELSE currentTask
                /\ IF FetchTaskDataRuns(m)
                     THEN /\ filesLoading' = TRUE
                          /\ error' = "null"
                          /\ loading' = loading
                          /\ inflight' = Recv(m) (+) SetToBag({FollowUp(m, "refresh_content")})
                     ELSE /\ filesLoading' = filesLoading
                          /\ error' = error
                          /\ loading' = IF MountedCheck(m) THEN FALSE ELSE loading
                          /\ inflight' = Recv(m)
                /\ lastOp' = Op("refreshStatusOk")
             \/ \E c \in FailCodes :
                /\ currentTask' = currentTask
                /\ filesLoading' = filesLoading
                /\ error' = IF MountedCheck(m) THEN HttpError(c) ELSE error
                /\ loading' = IF MountedCheck(m) THEN FALSE ELSE loading
                /\ inflight' = Recv(m)
                /\ lastOp' = Op("refreshStatusFailed")
          /\ timerActive' = UsePolling(PollEnabled(currentTask'))
          /\ UNCHANGED <<homeVars, accessToken, taskContent, isMounted, deleteVars,
                         prVars, fbVars, backendVars, pageVars>>

\* ------------------------------------------------------------- silent refresh
RecvSilentStatus ==
  \E m \in BagToSet(inflight) :
    /\ m.kind = "silent_status"
    /\ \/ /\ Live(m)
          /\ \/ \E st \in Answers(m) :
                LET updatedTask == BackendTask(m.id, st) IN
                IF MountedCheck(m) /\ HasChanges(updatedTask, m.cap)
                  THEN /\ currentTask' = updatedTask
                       /\ IF ContentRefetchNeeded(updatedTask, m.cap) /\ FetchTaskDataRuns(m)
                            THEN /\ filesLoading' = TRUE
                                 /\ error' = "null"
                                 /\ inflight' = Recv(m) (+) SetToBag({FollowUp(m, "silent_content")})
                            ELSE /\ filesLoading' = filesLoading
                                 /\ error' = error
                                 /\ inflight' = Recv(m)
                       /\ lastOp' = [op |-> "silentApplied", updatedTask |-> updatedTask]
                  ELSE /\ currentTask' = currentTask
                       /\ filesLoading' = filesLoading
                       /\ error' = error
                       /\ inflight' = Recv(m)
                       /\ lastOp' = [op |-> "silentNoChange", updatedTask |-> updatedTask]
             \/ /\ currentTask' = currentTask
                /\ filesLoading' = filesLoading
                /\ error' = error
                /\ inflight' = Recv(m)
                /\ lastOp' = Op("silentFailed")
          /\ timerActive' = UsePolling(PollEnabled(currentTask'))
          /\ UNCHANGED <<homeVars, accessToken, taskContent, loading, isMounted,
                         deleteVars, prVars, fbVars, backendVars, pageVars>>

\* ------------------------------------------------------------- delete
\* the Delete button as it would be if it deleted at once
HandleDeleteClickNoConfirm ==
  /\ PanelButtons
  /\ ~(deleting \/ loading)
  /\ deleting' = TRUE
  /\ error' = "null"
  /\ inflight' = Send(Request("delete", currentTask.id, NullTask))
  /\ lastOp' = Op("handleDeleteClick")
  /\ UNCHANGED <<homeVars, accessToken, currentTask, taskContent, loading, filesLoading,
                 isMounted, showDeleteConfirm, prVars, fbVars, timerActive, backendVars, pageVars>>

\* the Delete button opens the confirmation modal
HandleDeleteClick ==
  /\ PanelButtons
  /\ ~(deleting \/ loading)
  /\ showDeleteConfirm' = TRUE
  /\ lastOp' = Op("handleDeleteClick")
  /\ UNCHANGED <<homeVars, accessToken, dataVars, isMounted, deleting, prVars, fbVars,
                 timerActive, inflight, backendVars, pageVars>>

CancelDelete ==
  /\ PanelOpen /\ TopModal = "delete"
  /\ showDeleteConfirm' = FALSE
  /\ lastOp' = Op("cancelDelete")
  /\ UNCHANGED <<homeVars, accessToken, dataVars, isMounted, deleting, prVars, fbVars,
                 timerActive, inflight, backendVars, pageVars>>

\* "Delete Task" in the confirmation modal: confirmDelete up to its await
ConfirmDelete ==
  /\ PanelOpen /\ TopModal = "delete"
  /\ currentTask.id # 0 /\ isMounted
  /\ showDeleteConfirm' = FALSE
  /\ deleting' = TRUE
  /\ error' = "null"
  /\ inflight' = Send(Request("delete", currentTask.id, NullTask))
  /\ lastOp' = Op("confirmDelete")
  /\ UNCHANGED <<homeVars, accessToken, currentTask, taskContent, loading, filesLoading,
                 isMounted, prVars, fbVars, timerActive, backendVars, pageVars>>

\* Home.handleTaskDeleted as it would be without the list refresh
HandleTaskDeletedNoRefresh ==
  /\ refreshTrigger' = refreshTrigger
  /\ selectedTask' = NullTask

\* Home.handleTaskDeleted followed by Home.handleCloseDetails
HandleTaskDeleted ==
  /\ refreshTrigger' = refreshTrigger + 1
  /\ selectedTask' = NullTask

\* confirmDelete resumes with the response of DELETE /delete/{id}
RecvDelete ==
  \E m \in BagToSet(inflight) :
    /\ m.kind = "delete"
    /\ \/ /\ StatusOf(m.id) \in {"running", "completed", "failed"}
          /\ bstatus' = [bstatus EXCEPT ![m.id] = "deleted"]
          /\ HandleTaskDeleted
          /\ Unmount
          /\ inflight' = Orphaned(Recv(m))
          /\ lastOp' = Op("deleteOk")
          /\ UNCHANGED <<accessToken, servedVars, pageVars>>
       \/ \E c \in FailCodes :
          /\ inflight' = Recv(m)
          /\ IF Live(m)
               THEN /\ error' = IF MountedCheck(m) THEN HttpError(c) ELSE error
                    /\ deleting' = IF MountedCheck(m) THEN FALSE ELSE deleting
                    /\ lastOp' = Op("deleteFailed")
               ELSE /\ UNCHANGED <<error, deleting>>
                    /\ lastOp' = IF MountedCheck(m) THEN Op("setStateAfterUnmount")
                                 ELSE Op("droppedAfterUnmount")
          /\ UNCHANGED <<homeVars, accessToken, currentTask, taskContent, loading,
                         filesLoading, isMounted, showDeleteConfirm, prVars, fbVars,
                         timerActive, backendVars, pageVars>>

\* ------------------------------------------------------------- pull request
\* the Create PR button as it would be without the test of the status
CreatePRButtonAnyStatus ==
  /\ taskContent.is_git_repo
  /\ accessToken

\* the render condition of the Create PR button
CreatePRButton ==
  /\ taskContent.is_git_repo
  /\ accessToken
  /\ Terminal(currentTask.status)

HandleCreatePR ==
  /\ PanelButtons
  /\ CreatePRButton
  /\ ~(creatingPR \/ loading)
  /\ showPRModal' = TRUE
  /\ lastOp' = Op("handleCreatePR")
  /\ UNCHANGED <<homeVars, accessToken, dataVars, isMounted, deleteVars, creatingPR,
                 fbVars, timerActive, inflight, backendVars, pageVars>>

CancelCreatePR ==
  /\ PanelOpen /\ TopModal = "pr"
  /\ showPRModal' = FALSE
  /\ lastOp' = Op("cancelCreatePR")
  /\ UNCHANGED <<homeVars, accessToken, dataVars, isMounted, deleteVars, creatingPR,
                 fbVars, timerActive, inflight, backendVars, pageVars>>

\* "Create Pull Request" in the modal: createPullRequest up to its await
CreatePullRequest ==
  /\ PanelOpen /\ TopModal = "pr"
  /\ ~creatingPR
  /\ currentTask.id # 0 /\ accessToken
  /\ creatingPR' = TRUE
  /\ error' = "null"
  /\ inflight' = Send(Request("create_pr", currentTask.id, NullTask))
  /\ lastOp' = Op("createPullRequest")
  /\ UNCHANGED <<homeVars, accessToken, currentTask, taskContent, loading, filesLoading,
                 isMounted, deleteVars, showPRModal, fbVars, timerActive, backendVars, pageVars>>

\* the texts a failing create-pr or feedback response may carry in its body
BodyErrors == {"", "backend error"}

\* createPullRequest resumes with the response of POST /create-pr/{id}
RecvCreatePR ==
  \E m \in BagToSet(inflight) :
    /\ m.kind = "create_pr"
    /\ Live(m)
    /\ inflight' = Recv(m)
    /\ \/ /\ showPRModal' = FALSE       \* success with pr_url
          /\ error' = error
          /\ lastOp' = Op("createPROk")
       \/ /\ showPRModal' = showPRModal \* 2xx without success or pr_url
          /\ error' = error
          /\ lastOp' = Op("createPRNoUrl")
       \/ \E b \in BodyErrors, c \in FailCodes :
          /\ showPRModal' = showPRModal
          /\ error' = BodyOrHttpError(b, c)
          /\ lastOp' = Op("createPRFailed")
    /\ creatingPR' = FALSE
    /\ UNCHANGED <<homeVars, accessToken, currentTask, taskContent, loading, filesLoading,
                   isMounted, deleteVars, fbVars, timerActive, backendVars, pageVars>>

\* ------------------------------------------------------------- feedback
\* the render condition of the Give Feedback button
FeedbackButton ==
  /\ currentTask.session_id # "undefined"
  /\ Terminal(currentTask.status)

HandleFeedback ==
  /\ PanelButtons
  /\ FeedbackButton
  /\ ~(sendingFeedback \/ loading)
  /\ showFeedbackModal' = TRUE
  /\ lastOp' = Op("handleFeedback")
  /\ UNCHANGED <<homeVars, accessToken, dataVars, isMounted, deleteVars, prVars,
                 feedback, sendingFeedback, showFeedbackSuccess, feedbackTaskId,
                 timerActive, inflight, backendVars, pageVars>>

\* the texts typed into the feedback box
FeedbackTexts == {"", " ", "fix"}

SetFeedback ==
  \E t \in FeedbackTexts :
    /\ PanelOpen /\ TopModal = "feedback"
    /\ t # feedback
    /\ feedback' = t
    /\ lastOp' = Op("setFeedback")
    /\ UNCHANGED <<homeVars, accessToken, dataVars, isMounted, deleteVars, prVars,
                   showFeedbackModal, sendingFeedback, showFeedbackSuccess,
                   feedbackTaskId, timerActive, inflight, backendVars, pageVars>>

CancelFeedback ==
  /\ PanelOpen /\ TopModal = "feedback"
  /\ showFeedbackModal' = FALSE
  /\ feedback' = ""
  /\ lastOp' = Op("cancelFeedback")
  /\ UNCHANGED <<homeVars, accessToken, dataVars, isMounted, deleteVars, prVars,
                 sendingFeedback, showFeedbackSuccess, feedbackTaskId, timerActive,
                 inflight, backendVars, pageVars>>

\* "Send Feedback" in the modal: sendFeedback up to its await
SendFeedback ==
  /\ PanelOpen /\ TopModal = "feedback"
  /\ ~sendingFeedback
  /\ currentTask.id # 0 /\ Trim(feedback) # ""
  /\ sendingFeedback' = TRUE
  /\ error' = "null"
  /\ inflight' = Send(Request("feedback", currentTask.id, currentTask))
  /\ lastOp' = Op("sendFeedback")
  /\ UNCHANGED <<homeVars, accessToken, currentTask, taskContent, loading, filesLoading,
                 isMounted, deleteVars, prVars, showFeedbackModal, feedback,
                 showFeedbackSuccess, feedbackTaskId, timerActive, backendVars, pageVars>>

\* the id the backend gives the next feedback task
FreeIds == {i \in TaskIds : bstatus[i] = "absent"}
NextTaskId == CHOOSE i \in FreeIds : \A j \in FreeIds : i <= j

\* sendFeedback resumes with the response of POST /feedback/{id}
RecvFeedback ==
  \E m \in BagToSet(inflight) :
    /\ m.kind = "feedback"
    /\ inflight' = Recv(m)
    /\ \/ /\ FreeIds # {}               \* success: the backend starts the feedback task
          /\ StatusOf(m.id) \in {"running", "completed", "failed"}
          /\ bstatus' = [bstatus EXCEPT ![NextTaskId] = "running"]
          /\ IF Live(m)
               THEN /\ showFeedbackModal' = FALSE
                    /\ feedback' = ""
                    /\ feedbackTaskId' = NextTaskId
                    /\ showFeedbackSuccess' = TRUE
                    /\ currentTask' = FeedbackTask(NextTaskId, m.cap)
                    /\ taskContent' = NullContent
                    /\ sendingFeedback' = FALSE
                    /\ timerActive' = UsePolling(PollEnabled(currentTask'))
                    /\ lastOp' = Op("feedbackOk")
               ELSE /\ UNCHANGED <<fbVars, currentTask, taskContent, timerActive>>
                    /\ lastOp' = Op("setStateAfterUnmount")
          /\ error' = error
          /\ UNCHANGED <<servedVars, pageVars>>
       \/ /\ IF Live(m)                 \* 2xx with success = false
               THEN /\ sendingFeedback' = FALSE
                    /\ lastOp' = Op("feedbackRefused")
               ELSE /\ sendingFeedback' = sendingFeedback
                    /\ lastOp' = Op("setStateAfterUnmount")
          /\ error' = error
          /\ UNCHANGED <<showFeedbackModal, feedback, showFeedbackSuccess, feedbackTaskId,
                         currentTask, taskContent, timerActive, backendVars, pageVars>>
       \/ \E b \in BodyErrors, c \in FailCodes :
          /\ IF Live(m)
               THEN /\ sendingFeedback' = FALSE
                    /\ error' = BodyOrHttpError(b, c)
                    /\ lastOp' = Op("feedbackFailed")
               ELSE /\ UNCHANGED <<sendingFeedback, error>>
                    /\ lastOp' = Op("setStateAfterUnmount")
          /\ UNCHANGED <<showFeedbackModal, feedback, showFeedbackSuccess, feedbackTaskId,
                         currentTask, taskContent, timerActive, backendVars, pageVars>>
    /\ UNCHANGED <<homeVars, accessToken, loading, filesLoading, isMounted, deleteVars,
                   prVars>>

\* "Got it" in the feedback success modal
CloseFeedbackSuccess ==
  /\ PanelOpen /\ TopModal = "success"
  /\ showFeedbackSuccess' = FALSE
  /\ feedbackTaskId' = 0
  /\ lastOp' = Op("closeFeedbackSuccess")
  /\ UNCHANGED <<homeVars, accessToken, dataVars, isMounted, deleteVars, prVars,
                 showFeedbackModal, feedback, sendingFeedback, timerActive, inflight,
                 backendVars, pageVars>>

\* ------------------------------------------------------------- session
\* useSession: the user signs in or out
SessionChange ==
  /\ accessToken' = ~accessToken
  /\ lastOp' = Op("sessionChange")
  /\ UNCHANGED <<homeVars, panelVars, inflight, backendVars, pageVars>>

\* ------------------------------------------------------------- usePolling
\* the callbacks an owner passes: TasksList's fetchTasks closures, one per
\* filter value a render can hold
Filters == {"all", "running", "completed"}
FetchTasks(f) == f
Callbacks == {FetchTasks(f) : f \in Filters}
Intervals == {1000, 2000}

\* the first effect as it would be if it left the ref alone
SavedCallbackEffectStale(callback) == savedCallback

\* the first effect: savedCallback.current = callback
SavedCallbackEffect(callback) == callback

\* the timer effect runs at the first render and when interval or enabled
\* differ from the previous render's
TimerEffectReruns(first, interval, enabled) ==
  first \/ pollArgs.interval # interval \/ pollArgs.enabled # enabled

\* the timer effect's cleanup as it would be without clearInterval
ClearIntervalLeaks(ts, id) == ts

\* the timer effect's cleanup: clearInterval(id)
ClearInterval(ts, id) == {t \in ts : t.id # id}

\* one render of the hook with its effects
UsePollingRender(first, callback, interval, enabled) ==
  LET rerun   == TimerEffectReruns(first, interval, enabled)
      cleaned == IF rerun THEN ClearInterval(timers, effectTimer) ELSE timers
      creates == rerun /\ enabled
  IN
  /\ creates => nextTimer <= MaxTimers
  /\ savedCallback' = SavedCallbackEffect(callback)
  /\ pollArgs' = [callback |-> callback, interval |-> interval, enabled |-> enabled]
  /\ timers' = IF creates
                 THEN cleaned \cup {[id |-> nextTimer, interval |-> interval]}
                 ELSE cleaned
  /\ effectTimer' = IF creates THEN nextTimer ELSE IF rerun THEN 0 ELSE effectTimer
  /\ nextTimer' = IF creates THEN nextTimer + 1 ELSE nextTimer

\* the owner unmounts: the timer effect's cleanup runs
UsePollingUnmount ==
  /\ timers' = ClearInterval(timers, effectTimer)
  /\ effectTimer' = 0
  /\ pollArgs' = NoArgs
  /\ UNCHANGED <<savedCallback, nextTimer>>

\* what a hook step of an owner that is not modelled leaves alone
hookRest == <<homeVars, accessToken, panelVars, inflight, backendVars, listVars, formVars,
              apiVars, siteVars>>

HookMount ==
  /\ ~ownerMounted
  /\ \E cb \in Callbacks, iv \in Intervals, en \in BOOLEAN :
       UsePollingRender(TRUE, cb, iv, en)
  /\ ownerMounted' = TRUE
  /\ lastOp' = Op("hookMount")
  /\ UNCHANGED hookRest

HookRender ==
  /\ ownerMounted
  /\ \E cb \in Callbacks, iv \in Intervals, en \in BOOLEAN :
       UsePollingRender(FALSE, cb, iv, en)
  /\ ownerMounted' = TRUE
  /\ lastOp' = Op("hookRender")
  /\ UNCHANGED hookRest

HookUnmount ==
  /\ ownerMounted
  /\ UsePollingUnmount
  /\ ownerMounted' = FALSE
  /\ lastOp' = Op("hookUnmount")
  /\ UNCHANGED hookRest

\* a timer fires: tick invokes savedCallback.current
TimerFire ==
  /\ timers # {}
  /\ lastOp' = [Op("timerFire") EXCEPT !.callback = savedCallback]
  /\ UNCHANGED <<hookVars, hookRest>>

\* ------------------------------------------------------------- TasksList
\* the rows the backend lists for the tasks whose status is in sts
Rows(bs, sts) == {[id |-> i, status |-> bs[i]] : i \in {j \in TaskIds : bs[j] \in sts}}

\* the JSON body each list endpoint answers with
ListBody(endpoint, bs) ==
  CASE endpoint = "/running" ->
         LET rows == Rows(bs, {"running"})
         IN [running_tasks |-> rows, count |-> Cardinality(rows)]
    [] endpoint = "/completed" ->
         LET rows == Rows(bs, {"completed", "failed"})
         IN [completed_tasks |-> rows, count |-> Cardinality(rows)]
    [] OTHER ->
         LET rows == Rows(bs, {"running", "completed", "failed"})
         IN [tasks |-> rows, total |-> Cardinality(rows)]

\* ApiClient's list operations: the endpoint each one fetches
EndpointOf(op) ==
  CASE op = "listRunningTasks" -> "/running"
    [] op = "listCompletedTasks" -> "/completed"
    [] OTHER -> "/tasks"

\* ApiClient's list operations: what each one returns for a 2xx body
ListAllTasks(data) == data
ListRunningTasks(data) == [tasks |-> data.running_tasks, total |-> data.count]
ListCompletedTasks(data) == [tasks |-> data.completed_tasks, total |-> data.count]

ListResponse(op, data) ==
  CASE op = "listRunningTasks" -> ListRunningTasks(data)
    [] op = "listCompletedTasks" -> ListCompletedTasks(data)
    [] OTHER -> ListAllTasks(data)

\* fetchTasks' switch as it would be if it always listed all tasks
FetchTasksOpAlwaysAll(f) == "listAllTasks"

\* fetchTasks' switch over the filter its closure captured
FetchTasksOp(f) ==
  CASE f = "running" -> "listRunningTasks"
    [] f = "completed" -> "listCompletedTasks"
    [] OTHER -> "listAllTasks"

\* the request a fetchTasks closure that captured filter f awaits
ListRequest(f) ==
  [filter |-> f, op |-> FetchTasksOp(f), endpoint |-> EndpointOf(FetchTasksOp(f)),
   snap |-> bstatus]

\* fetchTasks up to its await
FetchTasksIssue(f) ==
  /\ BagCardinality(listInflight) < MaxFetches
  /\ listError' = "null"
  /\ listInflight' = listInflight (+) SetToBag({ListRequest(f)})

\* the list's enabled option as it would be if it never looked at the tasks
ListPollEnabledAlways(ts) == TRUE

\* the enabled option TasksList passes to usePolling
ListPollEnabled(ts) == \E t \in ts : t.status = "running"

\* TasksList's call of usePolling at a render that holds filter f and tasks ts
ListUsePolling(first, f, ts) == UsePollingRender(first, FetchTasks(f), 2000, ListPollEnabled(ts))

listRest == <<selectedTask, accessToken, panelVars, inflight, backendVars, formVars, siteVars>>

\* Home renders the list: its state is constructed and its effect fetches
ListMount ==
  /\ ~ownerMounted
  /\ ownerMounted' = TRUE
  /\ tasks' = {}
  /\ listLoading' = TRUE
  /\ filter' = "all"
  /\ FetchTasksIssue("all")
  /\ ListUsePolling(TRUE, "all", {})
  /\ lastOp' = Op("listMount")
  /\ UNCHANGED <<listRest, refreshTrigger, apiVars>>

\* the page is left: Home's and the list's state and the timer are dropped,
\* and what the list's requests bring back reaches no state any more
ListUnmount ==
  /\ ownerMounted
  /\ ownerMounted' = FALSE
  /\ UsePollingUnmount
  /\ tasks' = {}
  /\ listLoading' = TRUE
  /\ listError' = "null"
  /\ filter' = "all"
  /\ listInflight' = EmptyBag
  /\ refreshTrigger' = 0
  /\ lastOp' = Op("listUnmount")
  /\ UNCHANGED <<listRest, apiVars>>

\* a filter button: the effect on [filter, refreshTrigger] fetches
SetFilter ==
  \E f \in Filters :
    /\ ownerMounted
    /\ ~listLoading
    /\ f # filter
    /\ filter' = f
    /\ FetchTasksIssue(f)
    /\ ListUsePolling(FALSE, f, tasks)
    /\ ownerMounted' = ownerMounted
    /\ lastOp' = Op("setFilter")
    /\ UNCHANGED <<listRest, refreshTrigger, apiVars, tasks, listLoading>>

\* the list's Refresh button
ListRefresh ==
  /\ ownerMounted
  /\ ~listLoading
  /\ FetchTasksIssue(filter)
  /\ lastOp' = Op("listRefresh")
  /\ UNCHANGED <<listRest, refreshTrigger, apiVars, hookVars, tasks, listLoading, filter>>

\* Home.handleTaskSubmitted as it would be without the refresh trigger
HandleTaskSubmittedNoRefresh == refreshTrigger' = refreshTrigger

\* Home.handleTaskSubmitted
HandleTaskSubmitted == refreshTrigger' = refreshTrigger + 1

\* a task was submitted: Home passes the list a new refreshTrigger and the
\* list's effect fetches
ListRefreshTrigger ==
  /\ ownerMounted
  /\ refreshTrigger < MaxSubmits
  /\ HandleTaskSubmitted
  /\ FetchTasksIssue(filter)
  /\ lastOp' = Op("listRefreshTrigger")
  /\ UNCHANGED <<listRest, apiVars, hookVars, tasks, listLoading, filter>>

\* the list's timer fires: tick invokes savedCallback.current, a fetchTasks
ListTick ==
  /\ timers # {}
  /\ FetchTasksIssue(savedCallback)
  /\ lastOp' = [Op("listTick") EXCEPT !.callback = savedCallback]
  /\ UNCHANGED <<listRest, refreshTrigger, apiVars, hookVars, tasks, listLoading, filter>>

\* the requests fetchTasks' catch block would issue if it tried request m again
FetchTasksCatchRetries(m) == SetToBag({m})

\* the requests fetchTasks' catch block issues: it only sets the error
FetchTasksCatch(m) == EmptyBag

\* fetchTasks resumes with the response of its list operation
RecvList ==
  \E m \in BagToSet(listInflight) :
    /\ ownerMounted
    /\ listLoading' = FALSE
    /\ \/ \E bs \in {m.snap, bstatus} :
            LET response == ListResponse(m.op, ListBody(m.endpoint, bs)) IN
            /\ tasks' = response.tasks
            /\ listError' = listError
            /\ apiCall' = [op |-> m.op, status |-> "200", json |-> TRUE, error |-> ""]
            /\ apiResult' = [kind |-> "returned", message |-> "", tasks |-> response.tasks,
                             total |-> response.total]
            /\ listInflight' = listInflight (-) SetToBag({m})
            /\ lastOp' = Op("listOk")
       \/ \E c \in FailCodes :
            /\ tasks' = tasks
            /\ listInflight' = (listInflight (-) SetToBag({m})) (+) FetchTasksCatch(m)
            /\ listError' = HttpError(c)
            /\ apiCall' = [op |-> m.op, status |-> c, json |-> TRUE, error |-> ""]
            /\ apiResult' = [kind |-> "thrown", message |-> HttpError(c), tasks |-> {},
                             total |-> 0]
            /\ lastOp' = Op("listFailed")
    /\ ListUsePolling(FALSE, filter, tasks')
    /\ ownerMounted' = ownerMounted
    /\ UNCHANGED <<listRest, refreshTrigger, filter>>

\* ------------------------------------------------------------- TaskForm
\* the texts the description box holds and the repositories the select offers
Descriptions == {"", " ", "add README", " add README "}
Repos == {"octo/repo"}

\* handleSubmit's entry test as it would be without the repository
SubmitAllowedWithoutRepo(t, r) == Trim(t) # ""

\* handleSubmit's entry test
SubmitAllowed(t, r) == Trim(t) # "" /\ r # ""

\* the JSON body ApiClient.executeTask posts
ExecuteBody(t, repository) ==
  IF repository # "" THEN <<"task", t, "repository", repository>> ELSE <<"task", t>>

\* the success message of the form
SuccessMessage(id) == "Task submitted successfully! ID: " \o ToString(id)

formRest == <<selectedTask, accessToken, panelVars, inflight, servedVars, hookVars, listVars,
              apiVars, siteVars>>

\* the description box, enabled while no submission is under way
SetTask ==
  \E t \in Descriptions :
    /\ ~isSubmitting
    /\ t # task
    /\ task' = t
    /\ lastOp' = Op("setTask")
    /\ UNCHANGED <<formRest, refreshTrigger, bstatus, selectedRepo, isSubmitting, formError,
                   success, executeInflight>>

\* the repository select, enabled while no submission is under way
SetSelectedRepo ==
  \E r \in Repos \cup {""} :
    /\ ~isSubmitting
    /\ r # selectedRepo
    /\ selectedRepo' = r
    /\ lastOp' = Op("setSelectedRepo")
    /\ UNCHANGED <<formRest, refreshTrigger, bstatus, task, isSubmitting, formError,
                   success, executeInflight>>

\* handleSubmit up to its await; the form's controls are disabled while a
\* submission is under way
HandleSubmit ==
  /\ ~isSubmitting
  /\ IF SubmitAllowed(task, selectedRepo)
       THEN /\ isSubmitting' = TRUE
            /\ formError' = "null"
            /\ success' = "null"
            /\ executeInflight' = executeInflight (+)
                 SetToBag({[body |-> ExecuteBody(Trim(task), selectedRepo)]})
            /\ lastOp' = Op("handleSubmit")
            /\ UNCHANGED <<task, selectedRepo>>
       ELSE /\ lastOp' = Op("submitIgnored")
            /\ UNCHANGED formVars
  /\ UNCHANGED <<formRest, refreshTrigger, bstatus>>

\* handleSubmit resumes with the response of POST /execute; the Task List,
\* which reacts to the new refreshTrigger, is not mounted here
RecvExecute ==
  \E m \in BagToSet(executeInflight) :
    /\ executeInflight' = executeInflight (-) SetToBag({m})
    /\ isSubmitting' = FALSE
    /\ \/ /\ FreeIds # {}
          /\ bstatus' = [bstatus EXCEPT ![NextTaskId] = "running"]
          /\ success' = SuccessMessage(NextTaskId)
          /\ task' = ""
          /\ HandleTaskSubmitted
          /\ formError' = formError
          /\ lastOp' = Op("executeOk")
       \/ \E c \in FailCodes :
          /\ formError' = HttpError(c)
          /\ lastOp' = Op("executeFailed")
          /\ UNCHANGED <<bstatus, success, task, refreshTrigger>>
    /\ UNCHANGED <<formRest, selectedRepo>>

\* ------------------------------------------------------------- ApiClient calls
Ops == {"executeTask", "getTaskStatus", "listAllTasks", "listRunningTasks",
        "listCompletedTasks", "getTaskContent", "deleteTask", "createPullRequest",
        "sendFeedback"}
Statuses == {"200", "201", "400", "404", "500"}

\* response.ok
Ok(status) == status \in {"200", "201"}

\* the operations that read the body of a non-2xx response
ReadsErrorBody(op) == op \in {"createPullRequest", "sendFeedback"}

\* what an operation returns or throws for a response with the given status
\* and body (json: the body parses; bodyError: its error field, "" when
\* absent)
ApiOutcome(op, status, json, bodyError) ==
  LET result(kind, message) == [kind |-> kind, message |-> message, tasks |-> {}, total |-> 0]
  IN
  IF ~Ok(status)
    THEN IF ReadsErrorBody(op)
           THEN IF json
                  THEN result("thrown", BodyOrHttpError(bodyError, status))
                  ELSE result("thrown", "SyntaxError")
           ELSE result("thrown", HttpError(status))
    ELSE IF json THEN result("returned", "") ELSE result("thrown", "SyntaxError")

\* one call of an operation of the client against a response
ApiCall ==
  \E op \in Ops, status \in Statuses, json \in BOOLEAN, bodyError \in BodyErrors :
    /\ ~json => bodyError = ""
    /\ apiCall' = [op |-> op, status |-> status, json |-> json, error |-> bodyError]
    /\ apiResult' = ApiOutcome(op, status, json, bodyError)
    /\ lastOp' = Op("apiCall")
    /\ UNCHANGED <<homeVars, accessToken, panelVars, inflight, backendVars, hookVars,
                   listVars, formVars, siteVars>>

\* ------------------------------------------------------------- Auth Context
\* the access tokens a session carries, and what GitHub answers for them
Tokens == {"gho_a", "gho_b"}
UserOf(token) == IF token = "gho_a" THEN "alice" ELSE "bob"
GitHubRepos == {{}, {"octo/repo"}, {"octo/repo", "octo/other"}}

\* the isLoading the context hands to its consumers
ContextIsLoading == isLoading \/ authStatus = "loading"

\* the request fetchUser awaits; nothing without a token
FetchUser(sess) ==
  IF sess = "null" THEN EmptyBag ELSE SetToBag({[kind |-> "user", token |-> sess]})

\* the request fetchRepos awaits; nothing without a token
FetchRepos(sess) ==
  IF sess = "null" THEN EmptyBag ELSE SetToBag({[kind |-> "repos", token |-> sess]})

authRest == <<homeVars, panelVars, inflight, backendVars, hookVars, listVars, apiVars,
              fileVars, launchVars>>

\* useSession hands the provider a new session object or status, and the
\* effect on [session, status] runs: with a token it calls fetchUser and
\* fetchRepos, which run up to their awaits; unauthenticated it clears
SessionEffect ==
  \E st \in {"unauthenticated", "authenticated"}, sess \in Tokens \cup {"null"} :
    /\ (st = "authenticated") <=> (sess # "null")
    /\ st # authStatus \/ sess # "null"
    /\ authStatus' = st
    /\ session' = sess
    /\ accessToken' = (sess # "null")
    /\ IF sess # "null"
         THEN /\ BagCardinality(authInflight) + 2 <= MaxAuthRequests
              /\ isLoading' = TRUE
              /\ authError' = "null"
              /\ authInflight' = authInflight (+) FetchUser(sess) (+) FetchRepos(sess)
              /\ UNCHANGED <<user, repos>>
         ELSE /\ user' = "null"
              /\ repos' = {}
              /\ authError' = "null"
              /\ UNCHANGED <<isLoading, authInflight>>
    /\ lastOp' = Op("sessionEffect")
    /\ UNCHANGED <<authRest, formVars>>

\* the context's refreshRepos
RefreshRepos ==
  /\ session # "null"
  /\ BagCardinality(authInflight) < MaxAuthRequests
  /\ isLoading' = TRUE
  /\ authError' = "null"
  /\ authInflight' = authInflight (+) FetchRepos(session)
  /\ lastOp' = Op("refreshRepos")
  /\ UNCHANGED <<authRest, formVars, accessToken, authStatus, session, user, repos>>

\* fetchUser resumes with GitHub's response
RecvUser ==
  \E m \in BagToSet(authInflight) :
    /\ m.kind = "user"
    /\ authInflight' = authInflight (-) SetToBag({m})
    /\ \/ /\ user' = UserOf(m.token)
          /\ authError' = authError
          /\ lastOp' = Op("userOk")
       \/ /\ user' = user
          /\ authError' = "Failed to fetch user data"
          /\ lastOp' = Op("userFailed")
    /\ isLoading' = FALSE
    /\ UNCHANGED <<authRest, formVars, accessToken, authStatus, session, repos>>

\* fetchRepos resumes with GitHub's response
RecvRepos ==
  \E m \in BagToSet(authInflight) :
    /\ m.kind = "repos"
    /\ authInflight' = authInflight (-) SetToBag({m})
    /\ \/ \E reposData \in GitHubRepos :
            /\ repos' = reposData
            /\ authError' = authError
            /\ lastOp' = Op("reposOk")
       \/ /\ repos' = repos
          /\ authError' = "Failed to fetch repositories"
          /\ lastOp' = Op("reposFailed")
    /\ isLoading' = FALSE
    /\ UNCHANGED <<authRest, formVars, accessToken, authStatus, session, user>>

\* the form's repository select as the context lets it render: shown with a
\* user and a non-empty list, disabled while submitting or loading, its
\* options the placeholder and the listed repositories
SelectRepo ==
  \E r \in repos \cup {""} :
    /\ user # "null" /\ repos # {}
    /\ ~(isSubmitting \/ ContextIsLoading)
    /\ r # selectedRepo
    /\ selectedRepo' = r
    /\ lastOp' = Op("selectRepo")
    /\ UNCHANGED <<authRest, accessToken, authVars, task, isSubmitting, formError, success,
                   executeInflight>>

\* ------------------------------------------------------------- diff view
\* the paths a parsed file carries: none, the empty string, /dev/null, names
Paths == {"undefined", "", "/dev/null", "dev/null", "a.ts", "b.ts", "src/a.ts", "README.md"}

\* path || '/dev/null'
OrDevNull(path) == IF path \in {"undefined", ""} THEN "/dev/null" ELSE path

\* getFileType as it would be if it tested the new path first
GetFileTypeNewPathFirst(old, new) ==
  LET o == OrDevNull(old)
      n == OrDevNull(new)
  IN  IF n = "/dev/null" THEN "delete"
      ELSE IF o = "/dev/null" THEN "add"
      ELSE IF o # n THEN "rename"
      ELSE "modify"

\* getFileType of the file with these paths
GetFileType(old, new) ==
  LET o == OrDevNull(old)
      n == OrDevNull(new)
  IN  IF o = "/dev/null" THEN "add"
      ELSE IF n = "/dev/null" THEN "delete"
      ELSE IF o # n THEN "rename"
      ELSE "modify"

\* the diff view renders the file: actualFileType = getFileType()
RenderFile ==
  /\ actualFileType = "undefined"
  /\ actualFileType' = GetFileType(oldPath, newPath)
  /\ lastOp' = Op("renderFile")
  /\ UNCHANGED <<homeVars, accessToken, panelVars, inflight, backendVars, hookVars, listVars,
                 formVars, apiVars, authVars, launchVars, oldPath, newPath>>

\* ------------------------------------------------------------- launch script
\* pc is the line of the statement the script runs next, 0 before it is
\* started; exitStatus is "none" while it runs. Lines 51-87 have no
\* statement here because the script never reaches them: line 47 starts the
\* backend as an asynchronous list, whose exit status is 0, so the if takes
\* its then branch and line 49 calls error_exit on every run.
Signals == {"SIGINT", "SIGTERM"}
Running == pc # 0 /\ exitStatus = "none"

\* the exit status of "kill $PID 2>/dev/null": usage error without an
\* argument, failure for a process that is gone
KillStatus(pid, proc) ==
  IF pid = "unset" THEN "2" ELSE IF proc = "running" THEN "0" ELSE "1"

\* the process after "kill $PID"
Killed(pid, proc) == IF pid # "unset" /\ proc = "running" THEN "killed" ELSE proc

\* the exit status of an asynchronous list: the shell does not wait for it
AsyncListStatus == "0"

launchRest == <<homeVars, accessToken, panelVars, inflight, backendVars, hookVars, listVars,
                formVars, apiVars, authVars, fileVars, backendDir, frontendDir>>

\* the script is started; set -e
Launch ==
  /\ pc = 0
  /\ pc' = 14
  /\ lastOp' = Op("launch")
  /\ UNCHANGED <<launchRest, BACKEND_PID, FRONTEND_PID, pending, exitStatus, backend, frontend>>

\* the statements that only print, install a trap, change directory or call
\* a function: they move to the next statement
Statement ==
  /\ Running
  /\ pc \in {14, 32, 33, 37, 41, 45, 46, 49, 26, 27, 18}
  /\ pc' = CASE pc = 14 -> 32
             [] pc = 32 -> 33
             [] pc = 33 -> 36
             [] pc \in {37, 41, 49} -> 26
             [] pc = 45 -> 46
             [] pc = 46 -> 47
             [] pc = 26 -> 27
             [] pc = 27 -> 18
             [] pc = 18 -> 19
  /\ lastOp' = Op("statement")
  /\ UNCHANGED <<launchRest, BACKEND_PID, FRONTEND_PID, pending, exitStatus, backend, frontend>>

\* the tests for the two directories
CheckDirectory ==
  /\ Running
  /\ pc \in {36, 40}
  /\ pc' = IF pc = 36 THEN (IF ~backendDir THEN 37 ELSE 40)
                      ELSE (IF ~frontendDir THEN 41 ELSE 45)
  /\ lastOp' = Op("checkDirectory")
  /\ UNCHANGED <<launchRest, BACKEND_PID, FRONTEND_PID, pending, exitStatus, backend, frontend>>

\* if ! uv run command_server.py > ../backend.log 2>&1 & then: the backend is
\* started in the background and the if tests the status of the list
StartBackend ==
  /\ Running
  /\ pc = 47
  /\ backend' = "running"
  /\ pc' = IF AsyncListStatus = "0" THEN 49 ELSE 51
  /\ lastOp' = Op("startBackend")
  /\ UNCHANGED <<launchRest, BACKEND_PID, FRONTEND_PID, pending, exitStatus, frontend>>

\* cleanup's two kills and its exit 0 under set -e: a kill that fails ends
\* the script with that kill's status
CleanupKills ==
  /\ Running
  /\ pc = 19
  /\ LET first == KillStatus(BACKEND_PID, backend)
         second == KillStatus(FRONTEND_PID, frontend)
     IN  /\ backend' = Killed(BACKEND_PID, backend)
         /\ frontend' = IF first = "0" THEN Killed(FRONTEND_PID, frontend) ELSE frontend
         /\ exitStatus' = IF first # "0" THEN first ELSE second
  /\ lastOp' = Op("cleanupKills")
  /\ UNCHANGED <<launchRest, pc, BACKEND_PID, FRONTEND_PID, pending>>

\* SIGINT or SIGTERM is sent to the script
Signal ==
  \E sig \in Signals :
    /\ Running
    /\ pending = "none"
    /\ pending' = sig
    /\ lastOp' = Op("signal")
    /\ UNCHANGED <<launchRest, pc, BACKEND_PID, FRONTEND_PID, exitStatus, backend, frontend>>

\* the shell acts on the signal between two statements: it ends the script
\* while no trap is installed (lines 14 and 32), and calls cleanup after
Trap ==
  /\ Running
  /\ pending # "none"
  /\ pending' = "none"
  /\ IF pc \in {14, 32}
       THEN /\ exitStatus' = IF pending = "SIGINT" THEN "130" ELSE "143"
            /\ pc' = pc
       ELSE /\ pc' = 18
            /\ exitStatus' = exitStatus
  /\ lastOp' = Op("trap")
  /\ UNCHANGED <<launchRest, BACKEND_PID, FRONTEND_PID, backend, frontend>>

\* the backend server ends by itself
BackendExits ==
  /\ backend = "running"
  /\ backend' = "exited"
  /\ lastOp' = Op("backendExits")
  /\ UNCHANGED <<launchRest, pc, BACKEND_PID, FRONTEND_PID, pending, exitStatus, frontend>>

\* ------------------------------------------------------------- specifications
\* selection, manual refresh, silent polling and unmounting, against a
\* backend that finishes tasks
Next ==
  \/ BackendFinish
  \/ HandleTaskClick
  \/ HandleCloseDetails
  \/ Tick
  \/ ResumeUnmounted
  \/ RecvContent
  \/ RecvInitStatus
  \/ RefreshTask
  \/ RecvRefreshStatus
  \/ RecvSilentStatus

Spec == Init /\ [][Next]_vars

\* the same with the delete flow; what a task's content and session are
\* does not enter it
InitDelete ==
  /\ Init
  /\ sessionId = "undefined"
  /\ feedbackHistory = {}
  /\ isGitRepo
  /\ contentType = "diff"

NextDelete ==
  \/ Next
  \/ HandleDeleteClick
  \/ CancelDelete
  \/ ConfirmDelete
  \/ RecvDelete

SpecDelete == InitDelete /\ [][NextDelete]_vars

\* the same with the pull-request flow and the session signing in and out
InitPR ==
  /\ Init
  /\ sessionId = "undefined"
  /\ feedbackHistory = {}

NextPR ==
  \/ Next
  \/ SessionChange
  \/ HandleCreatePR
  \/ CancelCreatePR
  \/ CreatePullRequest
  \/ RecvCreatePR

SpecPR == InitPR /\ [][NextPR]_vars

\* one panel, kept open, with manual refresh, silent polling and the
\* feedback flow
InitFeedback ==
  /\ Init
  /\ isGitRepo
  /\ contentType = "diff"

NextFeedback ==
  \/ BackendFinish
  \/ HandleTaskClick
  \/ Tick
  \/ RecvContent
  \/ RecvInitStatus
  \/ RefreshTask
  \/ RecvRefreshStatus
  \/ RecvSilentStatus
  \/ HandleFeedback
  \/ SetFeedback
  \/ CancelFeedback
  \/ SendFeedback
  \/ RecvFeedback
  \/ CloseFeedbackSuccess

SpecFeedback == InitFeedback /\ [][NextFeedback]_vars

\* one usePolling instance under an owner that renders it with any callback,
\* interval and enabled, and unmounts and remounts it
InitPolling ==
  /\ Init
  /\ sessionId = "undefined"
  /\ feedbackHistory = {}
  /\ isGitRepo
  /\ contentType = "diff"

NextPolling ==
  \/ HookMount
  \/ HookRender
  \/ HookUnmount
  \/ TimerFire

SpecPolling == InitPolling /\ [][NextPolling]_vars

\* the Task List with its polling hook, against a backend that finishes tasks
NextList ==
  \/ BackendFinish
  \/ ListMount
  \/ ListUnmount
  \/ SetFilter
  \/ ListRefresh
  \/ ListRefreshTrigger
  \/ ListTick
  \/ RecvList

SpecList == InitPolling /\ [][NextList]_vars

\* the submission form with Home's submitted-callback
NextForm ==
  \/ SetTask
  \/ SetSelectedRepo
  \/ HandleSubmit
  \/ RecvExecute
  \/ BackendFinish

SpecForm == InitPolling /\ [][NextForm]_vars

\* the API client's operations against every response
NextApi == ApiCall

SpecApi == InitPolling /\ [][NextApi]_vars

\* the Auth Context under session changes, with the form's repository select
NextAuth ==
  \/ SessionEffect
  \/ RefreshRepos
  \/ RecvUser
  \/ RecvRepos
  \/ SelectRepo

SpecAuth == InitPolling /\ [][NextAuth]_vars

\* the diff view's file type for every pair of paths
InitFile ==
  /\ InitApp
  /\ sessionId = "undefined"
  /\ feedbackHistory = {}
  /\ isGitRepo
  /\ contentType = "diff"
  /\ oldPath \in Paths
  /\ newPath \in Paths
  /\ backendDir = TRUE
  /\ frontendDir = TRUE

NextFile == RenderFile

SpecFile == InitFile /\ [][NextFile]_vars

\* the launch script, with or without its two directories
InitLaunch ==
  /\ InitApp
  /\ sessionId = "undefined"
  /\ feedbackHistory = {}
  /\ isGitRepo
  /\ contentType = "diff"
  /\ oldPath = "undefined"
  /\ newPath = "undefined"
  /\ backendDir \in BOOLEAN
  /\ frontendDir \in BOOLEAN

NextLaunch ==
  \/ Launch
  \/ Statement
  \/ CheckDirectory
  \/ StartBackend
  \/ CleanupKills
  \/ Signal
  \/ Trap
  \/ BackendExits

SpecLaunch == InitLaunch /\ [][NextLaunch]_vars

\* the panel under fair scheduling: the backend finishes the task, the
\* interval timer keeps firing while it exists, every response is delivered,
\* and status requests do not fail for ever
RecvSilentStatusOk == RecvSilentStatus /\ lastOp'.op # "silentFailed"

Fairness ==
  /\ WF_vars(BackendFinish)
  /\ WF_vars(Tick)
  /\ SF_vars(RecvSilentStatusOk)
  /\ WF_vars(RecvInitStatus)
  /\ WF_vars(RecvRefreshStatus)
  /\ WF_vars(RecvContent)
  /\ WF_vars(ResumeUnmounted)

SpecFair == InitPolling /\ [][Next]_vars /\ Fairness

\* ------------------------------------------------------------- properties
SilentContentIssued ==
  CopiesOf(inflight', {"silent_content"}) > CopiesOf(inflight, {"silent_content"})

\* C1: silent polling issues the content request exactly once for each change
\* of the displayed status from running to completed or failed, and never from
\* a poll response that arrives when the displayed status is already terminal
C1_ContentRefetchOncePerTransition ==
  [][/\ SilentContentIssued
          => currentTask.status = "running" /\ Terminal(currentTask'.status)
     /\ (/\ lastOp'.op = "silentApplied"
         /\ currentTask.status = "running"
         /\ Terminal(currentTask'.status)) => SilentContentIssued]_vars

\* C2: while the panel shows a task id, the displayed status of that id only
\* changes from running to completed or from running to failed
C2_DisplayedStatusNeverReverses ==
  [][(/\ PanelOpen
      /\ PanelOpen'
      /\ currentTask'.id = currentTask.id
      /\ currentTask'.status # currentTask.status)
        => (currentTask.status = "running" /\ Terminal(currentTask'.status))]_vars

\* C3: a silent status response equal to the displayed task in the five
\* tracked fields leaves the panel unchanged (task not replaced, no content
\* request, error and loading flags untouched), and one that differs in a
\* tracked field replaces the displayed task
C3_SilentPollIdempotent ==
  [][lastOp'.op \in {"silentApplied", "silentNoChange"} =>
       IF HasChanges(lastOp'.updatedTask, currentTask)
         THEN lastOp'.op = "silentApplied" /\ currentTask' = lastOp'.updatedTask
         ELSE /\ lastOp'.op = "silentNoChange"
              /\ ~SilentContentIssued
              /\ UNCHANGED <<currentTask, taskContent, error, loading, filesLoading>>]_vars

\* C4: no handler calls a state setter of a panel that has been unmounted:
\* its mounted test is false once the panel is gone
C4_NoSetStateAfterUnmount == lastOp.op # "setStateAfterUnmount"

\* C5: a successful feedback makes the displayed task the synthesized running
\* task with the returned feedback_task_id, clears the content, shows that id
\* in the success modal and enables the poll; every tick requests the status
\* of the displayed task's id, so the feedback task's and not the original's
C5_FeedbackTaskShownAndPolled ==
  /\ lastOp.op = "feedbackOk" =>
       /\ feedbackTaskId \in TaskIds
       /\ bstatus[feedbackTaskId] = "running"
       /\ currentTask.id = feedbackTaskId
       /\ currentTask.id # selectedTask.id
       /\ currentTask.status = "running"
       /\ taskContent = NullContent
       /\ showFeedbackSuccess
       /\ timerActive
  /\ lastOp.op = "tick" =>
       \E m \in BagToSet(inflight) :
         m.kind = "silent_status" /\ m.live /\ m.id = currentTask.id /\ m.cap = currentTask

\* the poll has just asked for the status of the synthesized feedback task
C5_Witness ==
  /\ lastOp.op = "tick"
  /\ feedbackTaskId # 0
  /\ currentTask = FeedbackTask(feedbackTaskId, BackendTask(selectedTask.id, "completed"))
  /\ \E m \in BagToSet(inflight) : m.kind = "silent_status" /\ m.id = feedbackTaskId

\* C6: a successful feedback submission fires the Task List's refresh trigger
C6_FeedbackFiresRefreshTrigger ==
  [][lastOp'.op = "feedbackOk" => refreshTrigger' = refreshTrigger + 1]_vars

\* C7: confirming a delete issues DELETE for the displayed task's id; success
\* fires the list refresh exactly once and closes the panel; failure keeps the
\* panel open, fires nothing, sets the error to the failure message and
\* resets the deleting flag
C7_DeleteOutcome ==
  [][/\ lastOp'.op = "confirmDelete" =>
          \E m \in BagToSet(inflight') :
            /\ m.kind = "delete" /\ m.id = currentTask.id
            /\ CopiesIn(m, inflight') = CopiesIn(m, inflight) + 1
     /\ lastOp'.op = "deleteOk" =>
          /\ refreshTrigger' = refreshTrigger + 1
          /\ selectedTask' = NullTask
          /\ currentTask' = NullTask
     /\ lastOp'.op = "deleteFailed" =>
          /\ PanelOpen
          /\ UNCHANGED <<selectedTask, refreshTrigger, currentTask>>
          /\ error' \in {HttpError(c) : c \in FailCodes}
          /\ deleting' = FALSE]_vars

\* the delete succeeded: the list refresh fired and the panel is closed
C7_Witness ==
  /\ lastOp.op = "deleteOk"
  /\ refreshTrigger = 1
  /\ ~PanelOpen
  /\ \E i \in TaskIds : bstatus[i] = "deleted"

\* C8: a DELETE request is only issued by the confirm action taken while the
\* confirmation modal is shown; clicking Delete and then Cancel issues no
\* request and leaves the displayed task, the content and the error unchanged
C8_DeleteNeedsConfirmation ==
  [][/\ CopiesOf(inflight', {"delete"}) > CopiesOf(inflight, {"delete"})
          => showDeleteConfirm /\ TopModal = "delete" /\ lastOp'.op = "confirmDelete"
     /\ lastOp'.op \in {"handleDeleteClick", "cancelDelete"}
          => UNCHANGED <<inflight, currentTask, taskContent, error, deleting>>]_vars

\* Delete was clicked and then cancelled while the panel shows a task
C8_Witness ==
  /\ lastOp.op = "cancelDelete"
  /\ PanelOpen
  /\ ~showDeleteConfirm
  /\ CopiesOf(inflight, {"delete"}) = 0

\* C9: a feedback request is only issued while the displayed task has a
\* session identifier and a terminal status
C9_FeedbackOnlyOnTerminalTask ==
  lastOp.op = "sendFeedback" =>
    (currentTask.session_id # "undefined" /\ Terminal(currentTask.status))

C11_InitFailuresReportedIndependently ==
  [][/\ CopiesOf(inflight', {"init_content"}) > CopiesOf(inflight, {"init_content"})
          => lastOp'.op \in {"initStatusOk", "initStatusFailed"}
     /\ lastOp'.op \in {"initStatusOk", "initStatusFailed"}
          => CopiesOf(inflight', {"init_content"}) = CopiesOf(inflight, {"init_content"}) + 1
     /\ \A m \in BagToSet(inflight) :
          (m.kind = "init_content" /\ inflight' = Recv(m)) =>
            /\ (lastOp'.op = "contentOk" /\ m.caught # "null") => error' = m.caught
            /\ lastOp'.op = "contentFailed" => currentTask' = currentTask]_vars

\* C12: a silent poll tick never changes the panel's error string and never
\* sets the loading flag, whether its status request fails or the content
\* re-fetch it triggers fails
C12_SilentTickShowsNoError ==
  [][/\ lastOp'.op \in {"tick", "silentApplied", "silentNoChange", "silentFailed"}
          => (error' = error /\ loading' = loading)
     /\ \A m \in BagToSet(inflight) :
          (m.kind = "silent_content" /\ inflight' = Recv(m))
            => (error' = error /\ loading' = loading)]_vars

\* C20: whenever a delete, create-PR or feedback attempt of the panel ends
\* without its effect (an HTTP failure, a 2xx body with success = false or,
\* for create-PR, without pr_url) the panel's error is a non-null message
C20_MutationFailureSurfaced ==
  lastOp.op \in {"deleteFailed", "createPRFailed", "createPRNoUrl",
                 "feedbackFailed", "feedbackRefused"} => error # "null"

\* C13: a timer that fires invokes the callback passed at the latest render
\* and only fires while the hook is enabled and mounted; a render with the
\* same interval and enabled neither clears nor recreates the timer; while
\* enabled and mounted a timer of the passed interval exists, and when enabled
\* is false or the owner is unmounted none is left to start an invocation
C13_UsePollingTimer ==
  [][/\ lastOp'.op = "timerFire"
          => (ownerMounted /\ pollArgs.enabled /\ lastOp'.callback = pollArgs.callback)
     /\ (/\ lastOp'.op = "hookRender"
         /\ pollArgs'.interval = pollArgs.interval
         /\ pollArgs'.enabled = pollArgs.enabled) => UNCHANGED <<timers, effectTimer>>
     /\ (~ownerMounted' \/ ~pollArgs'.enabled) => timers' = {}
     /\ (ownerMounted' /\ pollArgs'.enabled)
          => \E t \in timers' : t.interval = pollArgs'.interval]_vars

\* the first timer is still the one firing after a render passed another
\* callback, and it invoked that callback
C13_Witness ==
  /\ lastOp.op = "timerFire"
  /\ lastOp.callback = "completed"
  /\ pollArgs.callback = "completed"
  /\ timers = {[id |-> 1, interval |-> 1000]}
  /\ nextTimer = 2

\* C14: a usePolling instance, whoever owns it, has at most one interval
\* timer, and none when its owner is unmounted or its enabled is false
C14_AtMostOneTimer ==
  /\ Cardinality(timers) <= 1
  /\ (~ownerMounted \/ ~pollArgs.enabled) => timers = {}

\* a timer was torn down and another created: still exactly one
C14_Witness ==
  /\ ownerMounted
  /\ pollArgs.enabled
  /\ nextTimer = 3
  /\ Cardinality(timers) = 1

\* C15: the Task List's timer, of 2 seconds, exists exactly when the list it
\* holds contains a task with status running, and a tick issues the list
\* request of the filter that is current when it fires
C15_ListPollFollowsTasksAndFilter ==
  [][/\ ownerMounted' =>
          /\ (timers' # {}) <=> (\E t \in tasks' : t.status = "running")
          /\ \A t \in timers' : t.interval = 2000
     /\ lastOp'.op = "listTick" =>
          /\ lastOp'.callback = filter
          /\ listInflight' = listInflight (+) SetToBag({
               [filter |-> filter,
                op |-> CASE filter = "running" -> "listRunningTasks"
                         [] filter = "completed" -> "listCompletedTasks"
                         [] OTHER -> "listAllTasks",
                endpoint |-> CASE filter = "running" -> "/running"
                               [] filter = "completed" -> "/completed"
                               [] OTHER -> "/tasks",
                snap |-> bstatus]})]_vars

\* the filter was changed to running after the timer was created, and a tick
\* has just asked for the running tasks
C15_Witness ==
  /\ lastOp.op = "listTick"
  /\ filter = "running"
  /\ timers = {[id |-> 1, interval |-> 2000]}
  /\ \E m \in BagToSet(listInflight) : m.endpoint = "/running"

\* C16: a list fetch issues one request, to the endpoint of the filter its
\* closure holds, and what the client returns for it is {tasks, total} with
\* the rows and the count of the endpoint's body: all -> /tasks, running ->
\* /running (running_tasks, count), completed -> /completed (completed_tasks,
\* count)
C16_ListFetchPerFilter ==
  [][/\ BagCardinality(listInflight') <= BagCardinality(listInflight) + 1
     /\ \A m \in BagToSet(listInflight') :
          /\ m.filter = "all" => m.endpoint = "/tasks"
          /\ m.filter = "running" => m.endpoint = "/running"
          /\ m.filter = "completed" => m.endpoint = "/completed"
     /\ lastOp'.op = "listOk" =>
          \E m \in BagToSet(listInflight) : \E bs \in {m.snap, bstatus} :
            /\ listInflight' = listInflight (-) SetToBag({m})
            /\ LET sts  == CASE m.filter = "running" -> {"running"}
                             [] m.filter = "completed" -> {"completed", "failed"}
                             [] OTHER -> {"running", "completed", "failed"}
                   rows == {[id |-> i, status |-> bs[i]] : i \in {j \in TaskIds : bs[j] \in sts}}
               IN /\ apiResult'.kind = "returned"
                  /\ apiResult'.tasks = rows
                  /\ apiResult'.total = Cardinality(rows)
                  /\ tasks' = rows]_vars

\* a fetch under the running filter returned the one running task
C16_Witness ==
  /\ lastOp.op = "listOk"
  /\ apiCall.op = "listRunningTasks"
  /\ apiResult.total = 1
  /\ tasks = {[id |-> 1, status |-> "running"]}

\* C17: POST /execute is only issued for a description that is non-empty
\* after trimming and a selected repository, with the body {task: trimmed
\* description, repository: selected repository}; a submit with an empty
\* description or no repository issues nothing and changes no form state
C17_SubmitOnlyWhenValid ==
  [][/\ BagCardinality(executeInflight') > BagCardinality(executeInflight)
          => /\ task \notin {"", " "}
             /\ selectedRepo \in Repos
             /\ executeInflight' = executeInflight (+) SetToBag({
                  [body |-> <<"task",
                              IF task = " add README " THEN "add README" ELSE task,
                              "repository", selectedRepo>>]})
     /\ (lastOp'.op \in {"handleSubmit", "submitIgnored"}
           /\ (task \in {"", " "} \/ selectedRepo = ""))
          => (lastOp'.op = "submitIgnored" /\ UNCHANGED formVars)]_vars

\* the description was typed with surrounding blanks and posted trimmed
C17_Witness ==
  /\ lastOp.op = "handleSubmit"
  /\ task = " add README "
  /\ isSubmitting
  /\ executeInflight =
       SetToBag({[body |-> <<"task", "add README", "repository", "octo/repo">>]})

\* C18: a successful submit clears the description, shows a success message
\* with the returned task id and raises the submitted-callback once; a failed
\* one shows the failure message, raises no callback and keeps the
\* description; both keep the selected repository and reset the submitting
\* flag
C18_SubmitOutcome ==
  [][/\ lastOp'.op = "executeOk" =>
          /\ task' = ""
          /\ \E i \in TaskIds :
               /\ bstatus[i] = "absent" /\ bstatus'[i] = "running"
               /\ success' = "Task submitted successfully! ID: " \o ToString(i)
          /\ refreshTrigger' = refreshTrigger + 1
          /\ formError' = "null"
          /\ selectedRepo' = selectedRepo
          /\ ~isSubmitting'
     /\ lastOp'.op = "executeFailed" =>
          /\ formError' \in {HttpError(c) : c \in FailCodes}
          /\ success' = "null"
          /\ UNCHANGED <<refreshTrigger, task, selectedRepo>>
          /\ task' # ""
          /\ ~isSubmitting']_vars

\* a task was submitted and accepted
C18_Witness ==
  /\ lastOp.op = "executeOk"
  /\ success = "Task submitted successfully! ID: 2"
  /\ task = ""
  /\ selectedRepo = "octo/repo"
  /\ refreshTrigger = 1

\* C19: every operation of the client fails on a non-2xx response, with the
\* body's error message when the body carries one and the HTTP status
\* otherwise
C19_NonOkResponseCarriesBodyError ==
  (apiCall.op # "none" /\ apiCall.status \notin {"200", "201"}) =>
    /\ apiResult.kind = "thrown"
    /\ apiResult.message = IF apiCall.json /\ apiCall.error # ""
                             THEN apiCall.error
                             ELSE "HTTP error! status: " \o apiCall.status

\* C21 (as stated): after a list request failed, no request for the same list
\* operation is issued until a user action; in particular the timer's next tick
\* does not ask for it again
C21_NoRequestAfterFailureUntilUserAction ==
  [][(lastOp.op = "listFailed" /\ lastOp'.op = "listTick")
       => FetchTasksOp(lastOp'.callback) # apiCall.op]_vars

\* C21 (amended): a failure triggers no request. The step in which a list
\* request fails issues none, and a list request is issued only by the mount,
\* a filter button, the Refresh button, a submitted task or a tick of the
\* polling timer, which fires whether the previous request failed or not
C21_FailureIssuesNoRequest ==
  [][/\ lastOp'.op = "listFailed"
          => BagCardinality(listInflight') = BagCardinality(listInflight) - 1
     /\ BagCardinality(listInflight') > BagCardinality(listInflight)
          => lastOp'.op \in {"listMount", "setFilter", "listRefresh",
                              "listRefreshTrigger", "listTick"}]_vars

C21_Witness ==
  /\ lastOp.op = "listFailed"
  /\ timers # {}
  /\ listInflight = EmptyBag

\* C22: while the session is unauthenticated the context's user is null and
\* its repository list is empty; a response still in flight when the session
\* ended does not fill them again
C22_ClearedWhileUnauthenticated ==
  authStatus = "unauthenticated" => (user = "null" /\ repos = {})

\* C29: the context's isLoading is true while a user request or a repository
\* request is outstanding
C29_LoadingWhileRequestOutstanding ==
  authInflight # EmptyBag => ContextIsLoading

\* C30: the form's selected repository is empty or one of the repositories in
\* the context's current list
C30_SelectedRepoInCurrentList ==
  selectedRepo = "" \/ selectedRepo \in repos

\* C23: with a missing path counted as /dev/null, the file type is add when the
\* old path is /dev/null (also when both are), delete when only the new path is
\* /dev/null, rename when neither is and the paths differ, modify when neither
\* is and they are equal
C23_GetFileTypeRule ==
  LET oldMissing == oldPath \in {"undefined", "", "/dev/null"}
      newMissing == newPath \in {"undefined", "", "/dev/null"}
  IN  actualFileType # "undefined" =>
        /\ oldMissing => actualFileType = "add"
        /\ (~oldMissing /\ newMissing) => actualFileType = "delete"
        /\ (~oldMissing /\ ~newMissing /\ oldPath # newPath) => actualFileType = "rename"
        /\ (~oldMissing /\ ~newMissing /\ oldPath = newPath) => actualFileType = "modify"

C23_Witness ==
  /\ oldPath = "undefined"
  /\ newPath = "/dev/null"
  /\ actualFileType = "add"

\* C24: when the launch script has ended, neither service is left running
C24_NoServiceLeftRunning ==
  exitStatus # "none" => (backend # "running" /\ frontend # "running")

\* C25: the content the panel holds belongs to the task it displays: when
\* the content is non-null its task_id is the displayed task's id
C25_ContentBelongsToDisplayedTask ==
  taskContent # NullContent => taskContent.task_id = currentTask.id

\* C26: a status response for one task is never applied while the panel
\* displays another: a step that applies the Task of a silent status response
\* is taken while the displayed task has that Task's id
C26_StatusAppliedOnlyToItsTask ==
  [][lastOp'.op = "silentApplied" => lastOp'.updatedTask.id = currentTask.id]_vars

\* C27: once every list request has been answered, the tasks the list shows
\* are the result of a request made with the current filter: the response
\* applied last, with none left in flight, is that of the current filter's
\* operation
C27_TasksAreOfCurrentFilter ==
  (ownerMounted /\ listInflight = EmptyBag /\ lastOp.op = "listOk")
    => apiCall.op = FetchTasksOp(filter)

\* C28: panel polling terminates. Under fair scheduling, once the user's
\* actions (selecting, closing, refreshing) have stopped, the panel, if open,
\* eventually displays a terminal status with its timer cleared and stays so;
\* and a status request of the poll is issued only while the timer exists
UserOps == {"handleTaskClick", "handleCloseDetails", "refreshTask"}

C28_PollingTerminates ==
  /\ <>[](lastOp.op \notin UserOps)
       => <>[](PanelOpen => (Terminal(currentTask.status) /\ ~timerActive
                               /\ PollsInFlight = 0))
  /\ [][Copies({"silent_status"}) < CopiesOf(inflight', {"silent_status"})
          => (timerActive /\ lastOp'.op = "tick")]_vars

C28_Witness ==
  /\ PanelOpen
  /\ lastOp.op = "silentApplied"
  /\ Terminal(currentTask.status)
  /\ ~timerActive
  /\ Copies({"silent_status"}) = 0

====
